---- MODULE Spec2Model ----
(***************************************************************************)
(* Window geometry persistence of wereader-app (src-tauri/src/main.rs).    *)
(*                                                                         *)
(* SimpleWindowState::save / ::load, the setup closure that applies the    *)
(* loaded geometry to the main window, and the on_window_event closure     *)
(* that captures the geometry on CloseRequested.                           *)
(*                                                                         *)
(* The geometry file is modelled as its text: a sequence of one-character  *)
(* strings.  serde_json::to_string_pretty and serde_json::from_str are     *)
(* modelled by what they do on that text.                                  *)
(***************************************************************************)
EXTENDS Integers, Sequences, FiniteSets, TLC

(***************************************************************************)
(* Characters                                                              *)
(***************************************************************************)
QUOTE == "\""
LF == "\n"
SP == " "

Digits == <<"0", "1", "2", "3", "4", "5", "6", "7", "8", "9">>

DigitChars == {Digits[k] : k \in 1..10}

DigitChar(d) == Digits[d + 1]

DigitVal(c) == CHOOSE d \in 0..9 : Digits[d + 1] = c

\* i32::MAX and i32::MIN
I32Max == 2147483647

I32Min == -2147483647 - 1

\* decimal digits of u32::MAX, i32::MAX and -(i32::MIN)
U32MaxDigits == <<4, 2, 9, 4, 9, 6, 7, 2, 9, 5>>

I32MaxDigits == <<2, 1, 4, 7, 4, 8, 3, 6, 4, 7>>

I32MinDigits == <<2, 1, 4, 7, 4, 8, 3, 6, 4, 8>>

(***************************************************************************)
(* struct SimpleWindowState and its Default                                *)
(***************************************************************************)
SimpleWindowState(w, h, px, py) == [width |-> w, height |-> h, x |-> px, y |-> py]

\* what #[derive(Default)] would give instead of the hand-written impl
Default_Derived == SimpleWindowState(0, 0, 0, 0)

Default == SimpleWindowState(800, 1200, -1, -1)

\* field names as they appear in the JSON text
WidthKey == <<"w", "i", "d", "t", "h">>

HeightKey == <<"h", "e", "i", "g", "h", "t">>

XKey == <<"x">>

YKey == <<"y">>

(***************************************************************************)
(* Serialization: serde_json::to_string_pretty(self)                       *)
(***************************************************************************)
\* decimal digits of a non-negative integer, most significant first
RECURSIVE FormatU32(_)
FormatU32(n) ==
    IF n < 10 THEN <<DigitChar(n)>>
    ELSE FormatU32(n \div 10) \o <<DigitChar(n % 10)>>

\* decimal digits of the magnitude of a negative integer (no negation of n,
\* so that i32::MIN is formatted without overflow)
RECURSIVE FormatMagnitude(_)
FormatMagnitude(n) ==
    LET last == (10 - (n % 10)) % 10
        rest == (n + last) \div 10
    IN  IF rest = 0 THEN <<DigitChar(last)>>
        ELSE FormatMagnitude(rest) \o <<DigitChar(last)>>

\* the sign is dropped, as if x and y were formatted as unsigned
FormatI32_Unsigned(n) ==
    IF n < 0 THEN FormatMagnitude(n) ELSE FormatU32(n)

FormatI32(n) ==
    IF n < 0 THEN <<"-">> \o FormatMagnitude(n) ELSE FormatU32(n)

\* one member line of the pretty printer: two spaces, "key": value
PrettyMember(key, value) ==
    <<SP, SP, QUOTE>> \o key \o <<QUOTE, ":", SP>> \o value

to_string_pretty(s) ==
    <<"{", LF>>
    \o PrettyMember(WidthKey, FormatU32(s.width)) \o <<",", LF>>
    \o PrettyMember(HeightKey, FormatU32(s.height)) \o <<",", LF>>
    \o PrettyMember(XKey, FormatI32(s.x)) \o <<",", LF>>
    \o PrettyMember(YKey, FormatI32(s.y)) \o <<LF, "}">>

(***************************************************************************)
(* Deserialization: serde_json::from_str::<SimpleWindowState>(&content)    *)
(***************************************************************************)
ParseErr == [ok |-> FALSE]

At(t, i) == IF i >= 1 /\ i <= Len(t) THEN t[i] ELSE "EOF"

IsWs(c) == c \in {SP, LF, "\t", "\r"}

IsDigit(c) == c \in DigitChars

RECURSIVE SkipWs(_, _)
SkipWs(t, i) == IF IsWs(At(t, i)) THEN SkipWs(t, i + 1) ELSE i

\* first index at or after i that does not hold a digit
RECURSIVE DigitSpanEnd(_, _)
DigitSpanEnd(t, i) == IF IsDigit(At(t, i)) THEN DigitSpanEnd(t, i + 1) ELSE i

\* A JSON number starting at i: optional '-', then "0" or a digit run without
\* a leading zero, then an optional fraction and an optional exponent.
\* ok is FALSE on a syntax error; float tells whether a fraction or an
\* exponent is present.  j is the index of the first digit, k the index after
\* the integer part, f the index after the fraction, es the index of the
\* first digit of the exponent, e the index after it.
ParseNumber(t, i) ==
    LET Token(neg, j, k, float, next) ==
            [ok |-> TRUE, neg |-> neg, float |-> float,
             digits |-> [n \in 1..(k - j) |-> DigitVal(t[j + n - 1])],
             next |-> next]
        WithExp(neg, j, k, es, e) ==
            IF e = es THEN ParseErr ELSE Token(neg, j, k, TRUE, e)
        WithFrac(neg, j, k, f) ==
            IF At(t, k) = "." /\ f = k + 1 THEN ParseErr
            ELSE IF At(t, f) \in {"e", "E"} THEN
                IF At(t, f + 1) \in {"+", "-"}
                THEN WithExp(neg, j, k, f + 2, DigitSpanEnd(t, f + 2))
                ELSE WithExp(neg, j, k, f + 1, DigitSpanEnd(t, f + 1))
            ELSE Token(neg, j, k, At(t, k) = ".", f)
        WithInt(neg, j, k) ==
            IF At(t, j) = "0" /\ IsDigit(At(t, k)) THEN ParseErr
            ELSE WithFrac(neg, j, k, IF At(t, k) = "." THEN DigitSpanEnd(t, k + 1) ELSE k)
        From(neg, j) ==
            IF ~IsDigit(At(t, j)) THEN ParseErr
            ELSE WithInt(neg, j, IF At(t, j) = "0" THEN j + 1 ELSE DigitSpanEnd(t, j))
    IN  From(At(t, i) = "-", IF At(t, i) = "-" THEN i + 1 ELSE i)

\* d <= m for digit sequences without leading zeros
RECURSIVE LexLeq(_, _)
LexLeq(d, m) ==
    IF d = <<>> THEN TRUE
    ELSE IF Head(d) # Head(m) THEN Head(d) < Head(m)
    ELSE LexLeq(Tail(d), Tail(m))

DigitsLeq(d, m) == Len(d) < Len(m) \/ (Len(d) = Len(m) /\ LexLeq(d, m))

\* value of a digit sequence, accumulated with the given sign
RECURSIVE DigitsValue(_, _, _)
DigitsValue(d, sign, acc) ==
    IF d = <<>> THEN acc
    ELSE DigitsValue(Tail(d), sign, acc * 10 + sign * Head(d))

IsZero(d) == d = <<0>>

\* A number token read as u32: floats, negative numbers (serde_json reads
\* "-0" as the float -0.0) and values above u32::MAX are errors.  (The
\* integers of the model end at i32::MAX; its texts hold no larger width.)
AsU32(num) ==
    IF num.float \/ num.neg \/ ~DigitsLeq(num.digits, U32MaxDigits) THEN ParseErr
    ELSE [ok |-> TRUE, value |-> DigitsValue(num.digits, 1, 0)]

\* A number token read as i32.
AsI32(num) ==
    IF num.float \/ (num.neg /\ IsZero(num.digits)) THEN ParseErr
    ELSE IF num.neg THEN
        IF DigitsLeq(num.digits, I32MinDigits)
        THEN [ok |-> TRUE, value |-> DigitsValue(num.digits, -1, 0)]
        ELSE ParseErr
    ELSE IF DigitsLeq(num.digits, I32MaxDigits)
        THEN [ok |-> TRUE, value |-> DigitsValue(num.digits, 1, 0)]
        ELSE ParseErr

\* index of the closing quote of the string whose opening quote is at i - 1;
\* 0 when the string is unterminated or holds a raw control character
RECURSIVE StringEnd(_, _)
StringEnd(t, i) ==
    IF i > Len(t) \/ t[i] \in {LF, "\t", "\r"} THEN 0
    ELSE IF t[i] = QUOTE THEN i
    ELSE StringEnd(t, i + 1)

\* A JSON string starting at i (the model's alphabet has no backslash).
ParseString(t, i) ==
    LET Closed(e) ==
            IF e = 0 THEN ParseErr
            ELSE [ok |-> TRUE, str |-> SubSeq(t, i + 1, e - 1), next |-> e + 1]
    IN  IF At(t, i) # QUOTE THEN ParseErr ELSE Closed(StringEnd(t, i + 1))

Matches(t, i, word) ==
    i + Len(word) - 1 <= Len(t) /\ SubSeq(t, i, i + Len(word) - 1) = word

\* Skips one JSON value of any type starting at i (the value of a key that is
\* not a field of the struct is ignored).  Returns the index after the value,
\* 0 on a syntax error.
RECURSIVE SkipValue(_, _)
RECURSIVE SkipElems(_, _)
RECURSIVE SkipMembers(_, _)
SkipValue(t, i) ==
    LET Next(r) == IF r.ok THEN r.next ELSE 0
        Elems(j) == IF At(t, j) = "]" THEN j + 1 ELSE SkipElems(t, j)
        Members(j) == IF At(t, j) = "}" THEN j + 1 ELSE SkipMembers(t, j)
    IN  IF At(t, i) = QUOTE THEN Next(ParseString(t, i))
        ELSE IF At(t, i) = "-" \/ IsDigit(At(t, i)) THEN Next(ParseNumber(t, i))
        ELSE IF At(t, i) = "t" THEN
            IF Matches(t, i, <<"t", "r", "u", "e">>) THEN i + 4 ELSE 0
        ELSE IF At(t, i) = "f" THEN
            IF Matches(t, i, <<"f", "a", "l", "s", "e">>) THEN i + 5 ELSE 0
        ELSE IF At(t, i) = "n" THEN
            IF Matches(t, i, <<"n", "u", "l", "l">>) THEN i + 4 ELSE 0
        ELSE IF At(t, i) = "[" THEN Elems(SkipWs(t, i + 1))
        ELSE IF At(t, i) = "{" THEN Members(SkipWs(t, i + 1))
        ELSE 0

\* the elements of an array from index i on, up to the closing bracket
SkipElems(t, i) ==
    LET Sep(j) ==
            IF At(t, j) = "," THEN SkipElems(t, SkipWs(t, j + 1))
            ELSE IF At(t, j) = "]" THEN j + 1
            ELSE 0
        Value(v) == IF v = 0 THEN 0 ELSE Sep(SkipWs(t, v))
    IN  Value(SkipValue(t, i))

\* the members of an object from index i on, up to the closing brace
SkipMembers(t, i) ==
    LET Sep(k) ==
            IF At(t, k) = "," THEN SkipMembers(t, SkipWs(t, k + 1))
            ELSE IF At(t, k) = "}" THEN k + 1
            ELSE 0
        Value(v) == IF v = 0 THEN 0 ELSE Sep(SkipWs(t, v))
        Colon(j) ==
            IF At(t, j) # ":" THEN 0 ELSE Value(SkipValue(t, SkipWs(t, j + 1)))
        Key(s) == IF ~s.ok THEN 0 ELSE Colon(SkipWs(t, s.next))
    IN  Key(ParseString(t, i))

\* the struct field a key names, "other" for an unknown key
FieldOf(key) ==
    IF key = WidthKey THEN "width"
    ELSE IF key = HeightKey THEN "height"
    ELSE IF key = XKey THEN "x"
    ELSE IF key = YKey THEN "y"
    ELSE "other"

FieldNames == {"width", "height", "x", "y"}

\* the typed value of a field: width and height are u32, x and y are i32
FieldValue(field, num) ==
    IF field \in {"width", "height"} THEN AsU32(num) ELSE AsI32(num)

\* The derived visit_map: members of the object from index i on.  seen is the
\* set of fields read so far, st the values read.  A duplicate field, a value
\* of the wrong type and a missing field are errors; unknown keys are skipped.
RECURSIVE ParseMembers(_, _, _, _)
ParseMembers(t, i, seen, st) ==
    LET Sep(k, seen2, st2) ==
            IF At(t, k) = "," THEN ParseMembers(t, SkipWs(t, k + 1), seen2, st2)
            ELSE IF At(t, k) = "}" THEN
                IF seen2 = FieldNames
                THEN [ok |-> TRUE, state |-> st2, next |-> k + 1]
                ELSE ParseErr
            ELSE ParseErr
        Typed(field, num, typed) ==
            IF ~typed.ok THEN ParseErr
            ELSE Sep(SkipWs(t, num.next), seen \cup {field},
                     [st EXCEPT ![field] = typed.value])
        Known(field, num) ==
            IF ~num.ok THEN ParseErr ELSE Typed(field, num, FieldValue(field, num))
        Unknown(after) ==
            IF after = 0 THEN ParseErr ELSE Sep(SkipWs(t, after), seen, st)
        Value(field, v) ==
            IF field \in FieldNames THEN
                IF field \in seen THEN ParseErr ELSE Known(field, ParseNumber(t, v))
            ELSE Unknown(SkipValue(t, v))
        Colon(key, j) ==
            IF At(t, j) # ":" THEN ParseErr
            ELSE Value(FieldOf(key.str), SkipWs(t, j + 1))
        Key(key) == IF ~key.ok THEN ParseErr ELSE Colon(key, SkipWs(t, key.next))
    IN  Key(ParseString(t, i))

SeqFields == <<"width", "height", "x", "y">>

\* The derived visit_seq: the struct written as an array of its four fields
\* in declaration order.
RECURSIVE ParseSeqElems(_, _, _, _)
ParseSeqElems(t, i, idx, st) ==
    LET Sep(k, st2) ==
            IF idx < 4 THEN
                IF At(t, k) = "," THEN ParseSeqElems(t, SkipWs(t, k + 1), idx + 1, st2)
                ELSE ParseErr
            ELSE IF At(t, k) = "]" THEN [ok |-> TRUE, state |-> st2, next |-> k + 1]
            ELSE ParseErr
        Typed(num, typed) ==
            IF ~typed.ok THEN ParseErr
            ELSE Sep(SkipWs(t, num.next), [st EXCEPT ![SeqFields[idx]] = typed.value])
        Elem(num) ==
            IF ~num.ok THEN ParseErr ELSE Typed(num, FieldValue(SeqFields[idx], num))
    IN  Elem(ParseNumber(t, i))

\* serde_json::from_str::<SimpleWindowState>: one value, an object or an
\* array, surrounded by optional whitespace and followed by nothing.
from_str(t) ==
    LET End(r) ==
            IF ~r.ok THEN ParseErr
            ELSE IF SkipWs(t, r.next) # Len(t) + 1 THEN ParseErr
            ELSE [ok |-> TRUE, state |-> r.state]
        Open(i, j) ==
            IF At(t, i) = "{" THEN
                IF At(t, j) = "}" THEN ParseErr
                ELSE End(ParseMembers(t, j, {}, Default))
            ELSE IF At(t, i) = "[" THEN End(ParseSeqElems(t, j, 1, Default))
            ELSE ParseErr
        Start(i) == Open(i, SkipWs(t, i + 1))
    IN  Start(SkipWs(t, 1))

(***************************************************************************)
(* The disk: the application config directory and window_state.json in it  *)
(***************************************************************************)
NoFile == [exists |-> FALSE, content |-> <<>>]

FileWith(text) == [exists |-> TRUE, content |-> text]

Disk(d, f) == [dir |-> d, file |-> f]

\* partial writes leave at most this many characters of the new text
MaxCut == 2

\* the file is opened without truncation: what the old text has beyond the new
\* text stays
fs_write_NoTruncate(disk, json, fault, cut) ==
    LET old == disk.file.content
        kept == IF Len(old) > Len(json) THEN SubSeq(old, Len(json) + 1, Len(old)) ELSE <<>>
    IN  IF fault = "open" THEN [ok |-> FALSE, disk |-> disk]
        ELSE IF fault = "partial"
            THEN [ok |-> FALSE, disk |-> [disk EXCEPT !.file = FileWith(SubSeq(json, 1, cut))]]
        ELSE [ok |-> TRUE, disk |-> [disk EXCEPT !.file = FileWith(json \o kept)]]

\* fs::write(&config_path, json): creates or truncates the file, then writes
\* the whole text.  fault "open" fails before the file is touched; fault
\* "partial" fails after the file was truncated and cut characters written.
fs_write(disk, json, fault, cut) ==
    IF fault = "open" THEN [ok |-> FALSE, disk |-> disk]
    ELSE IF fault = "partial"
        THEN [ok |-> FALSE, disk |-> [disk EXCEPT !.file = FileWith(SubSeq(json, 1, cut))]]
    ELSE [ok |-> TRUE, disk |-> [disk EXCEPT !.file = FileWith(json)]]

\* fs::create_dir_all(&config_dir)
create_dir_all(disk, fault) ==
    IF fault THEN [ok |-> FALSE, disk |-> disk]
    ELSE [ok |-> TRUE, disk |-> [disk EXCEPT !.dir = TRUE]]

\* the faults the collaborators of save can raise
SaveFaults ==
    [config_dir : BOOLEAN, create_dir_all : BOOLEAN, to_string_pretty : BOOLEAN,
     write : {"none", "open", "partial"}, cut : 0..MaxCut]

NoSaveFaults ==
    [config_dir |-> FALSE, create_dir_all |-> FALSE, to_string_pretty |-> FALSE,
     write |-> "none", cut |-> 0]

StageOrder == <<"app_config_dir", "create_dir_all", "to_string_pretty", "write">>

\* the result of create_dir_all is dropped and save goes on to write
save_IgnoreCreateDir(self, disk, f) ==
    LET Written(written) ==
            IF ~written.ok
            THEN [result |-> "FileWriteFailed", disk |-> written.disk,
                  stages |-> StageOrder]
            ELSE [result |-> "Ok", disk |-> written.disk, stages |-> StageOrder]
        Made(made) ==
            IF f.to_string_pretty
            THEN [result |-> "SerializationFailed", disk |-> made.disk,
                  stages |-> SubSeq(StageOrder, 1, 3)]
            ELSE Written(fs_write(made.disk, to_string_pretty(self), f.write, f.cut))
    IN  IF f.config_dir
        THEN [result |-> "ConfigDirUnavailable", disk |-> disk,
              stages |-> SubSeq(StageOrder, 1, 1)]
        ELSE Made(create_dir_all(disk, f.create_dir_all))

\* SimpleWindowState::save.  result is "Ok" or the error of the failed stage:
\* the code returns Err(String), and the map_err of each stage (lines 33, 37,
\* 42, 44) builds the message with a prefix of its own; the four prefixes are
\* named here ConfigDirUnavailable, DirectoryCreateFailed,
\* SerializationFailed and FileWriteFailed.  stages lists the stages that ran.
save(self, disk, f) ==
    LET Written(written) ==
            IF ~written.ok
            THEN [result |-> "FileWriteFailed", disk |-> written.disk,
                  stages |-> StageOrder]
            ELSE [result |-> "Ok", disk |-> written.disk, stages |-> StageOrder]
        Made(made) ==
            IF ~made.ok
            THEN [result |-> "DirectoryCreateFailed", disk |-> made.disk,
                  stages |-> SubSeq(StageOrder, 1, 2)]
            ELSE IF f.to_string_pretty
            THEN [result |-> "SerializationFailed", disk |-> made.disk,
                  stages |-> SubSeq(StageOrder, 1, 3)]
            ELSE Written(fs_write(made.disk, to_string_pretty(self), f.write, f.cut))
    IN  IF f.config_dir
        THEN [result |-> "ConfigDirUnavailable", disk |-> disk,
              stages |-> SubSeq(StageOrder, 1, 1)]
        ELSE Made(create_dir_all(disk, f.create_dir_all))

\* the faults the collaborators of load can raise
LoadFaults == [config_dir : BOOLEAN, read : BOOLEAN]

NoLoadFaults == [config_dir |-> FALSE, read |-> FALSE]

\* fs::read_to_string(&config_path): fails when the file is absent or on an
\* I/O error
read_to_string(disk, fault) ==
    IF fault \/ ~disk.file.exists THEN [ok |-> FALSE]
    ELSE [ok |-> TRUE, content |-> disk.file.content]

\* SimpleWindowState::load
load(disk, f) ==
    LET Parsed(parsed) == IF parsed.ok THEN parsed.state ELSE Default
        Read(content) ==
            IF content.ok THEN Parsed(from_str(content.content)) ELSE Default
    IN  IF f.config_dir THEN Default
        ELSE Read(read_to_string(disk, f.read))

(***************************************************************************)
(* main: the setup closure                                                 *)
(***************************************************************************)
\* one call on the main window and whether it succeeded
Call(op, a, b, ok) == [op |-> op, a |-> a, b |-> b, ok |-> ok]

\* the faults the window calls of the setup closure can raise
WindowFaults == [set_size : BOOLEAN, set_position : BOOLEAN, center : BOOLEAN]

\* || in place of &&
PositionIsSet_Or(saved_size) == saved_size.x >= 0 \/ saved_size.y >= 0

\* the condition of line 102
PositionIsSet(saved_size) == saved_size.x >= 0 /\ saved_size.y >= 0

\* the result of set_position is dropped: no fallback to center
PositionCalls_NoFallback(saved_size, wf) ==
    IF PositionIsSet(saved_size) THEN
        <<Call("set_position", saved_size.x, saved_size.y, ~wf.set_position)>>
    ELSE <<Call("center", 0, 0, ~wf.center)>>

\* lines 102-118: set_position with the fallback to center, or center alone
PositionCalls(saved_size, wf) ==
    IF PositionIsSet(saved_size) THEN
        <<Call("set_position", saved_size.x, saved_size.y, ~wf.set_position)>>
        \o (IF wf.set_position THEN <<Call("center", 0, 0, ~wf.center)>> ELSE <<>>)
    ELSE <<Call("center", 0, 0, ~wf.center)>>

\* The setup closure: load, set_size, then the position calls; it returns
\* Ok(()) whatever the calls returned.
setup(disk, lf, wf) ==
    LET Apply(saved_size) ==
            [saved_size |-> saved_size,
             calls |-> <<Call("set_size", saved_size.width, saved_size.height,
                              ~wf.set_size)>>
                       \o PositionCalls(saved_size, wf),
             result |-> "Ok"]
    IN  Apply(load(disk, lf))

\* the geometry of the window after the calls: created is the geometry the
\* window was created with, centered the position center() computes
RECURSIVE ApplyCalls(_, _, _)
ApplyCalls(win, calls, centered) ==
    IF calls = <<>> THEN win
    ELSE LET c == Head(calls)
             w2 == IF ~c.ok THEN win
                   ELSE IF c.op = "set_size" THEN [win EXCEPT !.width = c.a, !.height = c.b]
                   ELSE IF c.op = "set_position" THEN [win EXCEPT !.x = c.a, !.y = c.b]
                   ELSE [win EXCEPT !.x = centered[1], !.y = centered[2]]
         IN  ApplyCalls(w2, Tail(calls), centered)

(***************************************************************************)
(* main: the on_window_event closure                                       *)
(***************************************************************************)
\* the faults the collaborators of the closure can raise
CloseFaults == [inner_size : BOOLEAN, inner_position : BOOLEAN, save : SaveFaults]

NoSave ==
    [called |-> FALSE, record |-> Default, faults |-> NoSaveFaults,
     result |-> "none", stages |-> <<>>]

SaveOutcome(record, f, r) ==
    [called |-> TRUE, record |-> record, faults |-> f,
     result |-> r.result, stages |-> r.stages]

\* a failed inner_size is replaced by the default record and saved
on_window_event_SaveOnSizeError(win, disk, f) ==
    LET Saved(state, r) ==
            [outcome |-> "completed", save |-> SaveOutcome(state, f.save, r),
             disk |-> r.disk]
        Save(state) == Saved(state, save(state, disk, f.save))
    IN  IF f.inner_size
        THEN Save(Default)
        ELSE IF f.inner_position
        THEN [outcome |-> "panicked", save |-> NoSave, disk |-> disk]
        ELSE Save(SimpleWindowState(win.width, win.height, win.x, win.y))

\* x and y of the position are exchanged in the record
on_window_event_SwapXY(win, disk, f) ==
    LET Saved(state, r) ==
            [outcome |-> "completed", save |-> SaveOutcome(state, f.save, r),
             disk |-> r.disk]
        Save(state) == Saved(state, save(state, disk, f.save))
    IN  IF f.inner_size
        THEN [outcome |-> "completed", save |-> NoSave, disk |-> disk]
        ELSE IF f.inner_position
        THEN [outcome |-> "panicked", save |-> NoSave, disk |-> disk]
        ELSE Save(SimpleWindowState(win.width, win.height, win.y, win.x))

\* The closure on WindowEvent::CloseRequested.  win is the live geometry the
\* window reports.  inner_position().unwrap() panics when the call fails.
on_window_event(win, disk, f) ==
    LET Saved(state, r) ==
            [outcome |-> "completed", save |-> SaveOutcome(state, f.save, r),
             disk |-> r.disk]
        Save(state) == Saved(state, save(state, disk, f.save))
    IN  IF f.inner_size
        THEN [outcome |-> "completed", save |-> NoSave, disk |-> disk]
        ELSE IF f.inner_position
        THEN [outcome |-> "panicked", save |-> NoSave, disk |-> disk]
        ELSE Save(SimpleWindowState(win.width, win.height, win.x, win.y))

(***************************************************************************)
(* Inputs                                                                  *)
(***************************************************************************)
\* inner sizes and inner positions the window can report
Sizes == {<<800, 1200>>, <<1024, 768>>}

Positions == {<<0, 0>>, <<100, 50>>, <<-1920, 30>>, <<40, -8>>}

Geometries ==
    {SimpleWindowState(sz[1], sz[2], ps[1], ps[2]) : sz \in Sizes, ps \in Positions}

\* the geometry the main window is created with, and where center() puts it
Created == SimpleWindowState(1024, 768, 40, -8)

Centered == <<100, 50>>

\* records handed to save directly: the geometries and the extremes of the
\* field types that the model's integers can hold
Records ==
    {SimpleWindowState(800, 1200, 100, 50),
     SimpleWindowState(1024, 768, -1920, 30),
     SimpleWindowState(1024, 768, 40, -8),
     SimpleWindowState(0, 0, 0, 0),
     SimpleWindowState(1, I32Max, I32Min, I32Max),
     SimpleWindowState(I32Max, 1, I32Max, I32Min),
     SimpleWindowState(1000000000, 10, -10, 9)}

\* a JSON object without whitespace from a sequence of <<key, value text>>
RECURSIVE CompactMembers(_)
CompactMembers(ms) ==
    IF ms = <<>> THEN <<>>
    ELSE <<QUOTE>> \o Head(ms)[1] \o <<QUOTE, ":">> \o Head(ms)[2]
         \o (IF Len(ms) > 1 THEN <<",">> ELSE <<>>) \o CompactMembers(Tail(ms))

Compact(ms) == <<"{">> \o CompactMembers(ms) \o <<"}">>

W640 == <<WidthKey, <<"6", "4", "0">>>>

H600 == <<HeightKey, <<"6", "0", "0">>>>

X5 == <<XKey, <<"5">>>>

Y7 == <<YKey, <<"7">>>>

\* texts another writer can leave in window_state.json that are not a
\* SimpleWindowState: no text, no JSON, a missing field, a string, a negative
\* and a fractional number, a number out of range, a duplicate field,
\* trailing text, an array that is too short
NotJson == <<"n", "o", "t", SP, "j", "s", "o", "n">>

MissingField == Compact(<<W640, H600, X5>>)

WrongType == Compact(<<<<WidthKey, <<QUOTE, "6", "4", "0", QUOTE>>>>, H600, X5, Y7>>)

BadTexts ==
    {<<>>,
     NotJson,
     MissingField,
     WrongType,
     Compact(<<<<WidthKey, <<"-", "6", "4", "0">>>>, H600, X5, Y7>>),
     Compact(<<W640, H600, <<XKey, <<"5", ".", "5">>>>, Y7>>),
     Compact(<<W640, H600, <<XKey, <<"2", "1", "4", "7", "4", "8", "3", "6", "4", "8">>>>, Y7>>),
     Compact(<<W640, H600, X5, Y7, X5>>),
     Compact(<<W640, H600, X5, Y7>>) \o <<"}">>,
     <<"[", "6", "4", "0", ",", "6", "0", "0", ",", "5", "]">>}

\* texts another writer can leave that are a SimpleWindowState: fields in
\* another order with an unknown key, the array form, a negative y
GoodTexts ==
    {Compact(<<Y7, X5, <<<<"k">>, <<"[", "1", ",", "{", "}", "]">>>>, H600, W640>>),
     <<"[", "6", "4", "0", ",", SP, "6", "0", "0", ",", "5", ",", "7", "]", LF>>,
     Compact(<<W640, H600, X5, <<YKey, <<"-", "7">>>>>>)}

ExternalTexts == BadTexts \cup GoodTexts

(***************************************************************************)
(* State                                                                   *)
(*                                                                         *)
(* loadOut, calls and setupResult hold what the last run of load or of the *)
(* setup closure did; closeOut, saveOut and before hold what the last run  *)
(* of the close handler or of save did.  They are cleared by every other   *)
(* step, so that a set value describes the step just taken.                *)
(***************************************************************************)
VARIABLES
    disk,          \* the config directory and window_state.json
    phase,         \* "stopped" or "running"
    window,        \* live geometry of the main window while running
    persisted,     \* the geometry last saved with success (the record given to save, the
                   \* window's geometry at close), while the file is as that save left it
    loadOut,       \* load: the faults raised and the record returned
    calls,         \* setup closure: the calls made on the window
    setupResult,   \* setup closure: "none" or the value returned
    closeOut,      \* close handler: the faults raised and how it ended
    saveOut,       \* save: the record, the faults raised, the result, the stages run
    before         \* the disk when the close handler or save started

vars ==
    <<disk, phase, window, persisted, loadOut, calls, setupResult, closeOut,
      saveOut, before>>

NoWindow == SimpleWindowState(0, 0, 0, 0)

NoDisk == Disk(FALSE, NoFile)

NoLoad == [called |-> FALSE, faults |-> NoLoadFaults, result |-> Default]

LoadOutcome(lf, r) == [called |-> TRUE, faults |-> lf, result |-> r]

NoClose == [called |-> FALSE, inner_size |-> FALSE, inner_position |-> FALSE,
            outcome |-> "none"]

CloseOutcome(f, outcome) ==
    [called |-> TRUE, inner_size |-> f.inner_size, inner_position |-> f.inner_position,
     outcome |-> outcome]

NotPersisted == [valid |-> FALSE, record |-> Default]

\* persisted after a save of record that returned r from disk d
PersistedAfter(record, d, r) ==
    IF r.result = "Ok" THEN [valid |-> TRUE, record |-> record]
    ELSE IF r.disk.file # d.file THEN NotPersisted
    ELSE persisted

Init ==
    /\ disk = NoDisk
    /\ phase = "stopped"
    /\ window = NoWindow
    /\ persisted = NotPersisted
    /\ loadOut = NoLoad
    /\ calls = <<>>
    /\ setupResult = "none"
    /\ closeOut = NoClose
    /\ saveOut = NoSave
    /\ before = NoDisk

ClearSetup == loadOut' = NoLoad /\ calls' = <<>> /\ setupResult' = "none"

ClearClose == closeOut' = NoClose /\ saveOut' = NoSave /\ before' = NoDisk

(***************************************************************************)
(* The application: startup, the user, close, and other writers            *)
(***************************************************************************)
\* The process starts: the window is created and the setup closure runs (the
\* window labelled "main" exists, so the unwrap of line 88 succeeds).
Setup ==
    /\ phase = "stopped"
    /\ \E lf \in LoadFaults, wf \in WindowFaults :
          LET Ran(s) ==
                  /\ loadOut' = LoadOutcome(lf, s.saved_size)
                  /\ calls' = s.calls
                  /\ setupResult' = s.result
                  /\ window' = ApplyCalls(Created, s.calls, Centered)
          IN  Ran(setup(disk, lf, wf))
    /\ phase' = "running"
    /\ ClearClose
    /\ UNCHANGED <<disk, persisted>>

\* The user resizes the window (the handler ignores the Resized event).
UserResize ==
    /\ phase = "running"
    /\ \E sz \in Sizes : window' = [window EXCEPT !.width = sz[1], !.height = sz[2]]
    /\ ClearSetup
    /\ UNCHANGED <<disk, phase, persisted, closeOut, saveOut, before>>

\* The user moves the window (the handler ignores the Moved event).
UserMove ==
    /\ phase = "running"
    /\ \E ps \in Positions : window' = [window EXCEPT !.x = ps[1], !.y = ps[2]]
    /\ ClearSetup
    /\ UNCHANGED <<disk, phase, persisted, closeOut, saveOut, before>>

\* the fault combinations of save, the cut being used by partial writes only
SaveFaultChoices == {f \in SaveFaults : f.write # "partial" => f.cut = 0}

\* the fault combinations in which at most one stage of save fails
SingleSaveFaults ==
    {f \in SaveFaultChoices :
        Cardinality({st \in {"config_dir", "create_dir_all", "to_string_pretty"} : f[st]}
                    \cup (IF f.write # "none" THEN {"write"} ELSE {})) <= 1}

\* CloseRequested arrives, the handler runs and the process ends.
CloseRequested ==
    /\ phase = "running"
    /\ \E fi \in BOOLEAN, fp \in BOOLEAN, fs \in SingleSaveFaults :
          LET Ran(f, r) ==
                  /\ closeOut' = CloseOutcome(f, r.outcome)
                  /\ saveOut' = r.save
                  /\ disk' = r.disk
                  /\ persisted' = IF r.save.called
                                  THEN PersistedAfter(window, disk,
                                           [result |-> r.save.result, disk |-> r.disk])
                                  ELSE persisted
              Handle(f) == Ran(f, on_window_event(window, disk, f))
          IN  Handle([inner_size |-> fi, inner_position |-> fp, save |-> fs])
    /\ before' = disk
    /\ phase' = "stopped"
    /\ window' = NoWindow
    /\ ClearSetup

\* Something else writes window_state.json.
ExternalWrite ==
    /\ \E text \in ExternalTexts : disk' = Disk(TRUE, FileWith(text))
    /\ persisted' = NotPersisted
    /\ ClearSetup
    /\ ClearClose
    /\ UNCHANGED <<phase, window>>

\* Something else removes window_state.json.
ExternalRemove ==
    /\ disk.file.exists
    /\ disk' = [disk EXCEPT !.file = NoFile]
    /\ persisted' = NotPersisted
    /\ ClearSetup
    /\ ClearClose
    /\ UNCHANGED <<phase, window>>

Next ==
    \/ Setup
    \/ UserResize
    \/ UserMove
    \/ CloseRequested
    \/ ExternalWrite
    \/ ExternalRemove

Spec == Init /\ [][Next]_vars

(***************************************************************************)
(* The store alone: save and load called directly with any record          *)
(***************************************************************************)
StoreSave ==
    /\ \E r \in Records, fs \in SaveFaultChoices :
          LET Ran(out) ==
                  /\ saveOut' = SaveOutcome(r, fs, out)
                  /\ disk' = out.disk
                  /\ persisted' = PersistedAfter(r, disk, out)
          IN  Ran(save(r, disk, fs))
    /\ before' = disk
    /\ ClearSetup
    /\ UNCHANGED <<phase, window, closeOut>>

StoreLoad ==
    /\ \E lf \in LoadFaults : loadOut' = LoadOutcome(lf, load(disk, lf))
    /\ saveOut' = NoSave
    /\ before' = NoDisk
    /\ UNCHANGED <<disk, phase, window, persisted, calls, setupResult, closeOut>>

StoreNext ==
    \/ StoreSave
    \/ StoreLoad
    \/ ExternalWrite
    \/ ExternalRemove

StoreSpec == Init /\ [][StoreNext]_vars


(***************************************************************************)
(* Properties                                                              *)
(***************************************************************************)
CountOp(cs, op) == Cardinality({k \in 1..Len(cs) : cs[k].op = op})

LoadFaultFree == ~loadOut.faults.config_dir /\ ~loadOut.faults.read

\* a text that is a proper prefix of what save writes for some record
IsTruncated(text) ==
    \E r \in Records \cup Geometries :
        LET json == to_string_pretty(r)
        IN  Len(text) < Len(json) /\ text = SubSeq(json, 1, Len(text))

\* C1: load always returns a record; it returns exactly
\* {width:800, height:1200, x:-1, y:-1} when the config directory does not
\* resolve, when the file cannot be read, and when the text does not parse
\* (no JSON, a missing field, a wrongly typed field, a truncated file); it
\* returns anything else only when all three steps succeed, and then the
\* parsed record.
C1_LoadFailSafe ==
    loadOut.called =>
        LET text == disk.file.content
            failed == \/ loadOut.faults.config_dir
                      \/ loadOut.faults.read
                      \/ ~disk.file.exists
                      \/ text \in BadTexts
                      \/ IsTruncated(text)
                      \/ ~from_str(text).ok
            fallback == SimpleWindowState(800, 1200, -1, -1)
        IN  /\ loadOut.result \in [width : Nat, height : Nat, x : Int, y : Int]
            /\ failed => loadOut.result = fallback
            /\ loadOut.result # fallback =>
                   /\ LoadFaultFree
                   /\ disk.file.exists
                   /\ from_str(text) = [ok |-> TRUE, state |-> loadOut.result]

C1_Witness ==
    /\ loadOut.called
    /\ LoadFaultFree
    /\ disk.file.exists
    /\ disk.file.content = MissingField
    /\ loadOut.result = SimpleWindowState(800, 1200, -1, -1)

\* C2: after a successful save(r) with width > 0 and height > 0 and no write
\* to the file since, a load whose directory resolution and file read succeed
\* returns r in all four fields, negative x and y included.
C2_RoundTrip ==
    (/\ loadOut.called
     /\ LoadFaultFree
     /\ persisted.valid
     /\ persisted.record.width > 0
     /\ persisted.record.height > 0)
    => loadOut.result = persisted.record

C2_Witness ==
    /\ loadOut.called
    /\ LoadFaultFree
    /\ persisted.valid
    /\ persisted.record = SimpleWindowState(1, I32Max, I32Min, I32Max)
    /\ loadOut.result = persisted.record

\* C3: when save fails in the close handler, the handler completes and
\* window_state.json is exactly as it was before the handler ran.
C3_FailedSaveLeavesFile ==
    (closeOut.called /\ saveOut.called /\ saveOut.result # "Ok")
    => (closeOut.outcome = "completed" /\ disk.file = before.file)

\* C4: the setup closure returns Ok and the close handler completes whatever
\* the collaborators return.
C4_NeverBlocks ==
    /\ loadOut.called => setupResult = "Ok"
    /\ closeOut.called => closeOut.outcome = "completed"

\* C5: when the loaded record has x < 0 or y < 0, the setup closure calls
\* center exactly once and never set_position, whether set_size failed or not.
C5_SentinelCenters ==
    (loadOut.called /\ (loadOut.result.x < 0 \/ loadOut.result.y < 0))
    => (CountOp(calls, "center") = 1 /\ CountOp(calls, "set_position") = 0)

C5_Witness ==
    /\ loadOut.called
    /\ loadOut.result.x >= 0
    /\ loadOut.result.y < 0
    /\ ~calls[1].ok
    /\ CountOp(calls, "center") = 1

\* C6: when the loaded record has x >= 0 and y >= 0, the setup closure calls
\* set_position(x, y) exactly once; when that call fails center is called
\* exactly once after it, and the closure returns Ok even when center fails;
\* when that call succeeds center is not called.
C6_PositionWithFallback ==
    (loadOut.called /\ loadOut.result.x >= 0 /\ loadOut.result.y >= 0)
    => /\ setupResult = "Ok"
       /\ CountOp(calls, "set_position") = 1
       /\ \A k \in 1..Len(calls) :
              calls[k].op = "set_position" =>
                  /\ calls[k].a = loadOut.result.x
                  /\ calls[k].b = loadOut.result.y
                  /\ ~calls[k].ok =>
                         /\ CountOp(calls, "center") = 1
                         /\ k < Len(calls)
                         /\ calls[k + 1].op = "center"
                  /\ calls[k].ok => CountOp(calls, "center") = 0

C6_Witness ==
    /\ setupResult = "Ok"
    /\ loadOut.result.x = 0
    /\ loadOut.result.y = 0
    /\ Len(calls) = 3
    /\ calls[2] = Call("set_position", 0, 0, FALSE)
    /\ calls[3] = Call("center", 0, 0, FALSE)

\* C7: when inner_size fails in the close handler, save is not called, no
\* directory is created and window_state.json keeps its content or stays
\* absent.
C7_FailedSizeSkipsSave ==
    (closeOut.called /\ closeOut.inner_size)
    => (~saveOut.called /\ disk = before)

C7_Witness ==
    /\ closeOut.called
    /\ closeOut.inner_size
    /\ ~before.dir
    /\ ~disk.dir
    /\ ~disk.file.exists

\* C8: while the last change of the file is a successful save, the file holds
\* the serialization of that save's record and nothing else, and it parses
\* to that record.
C8_OverwriteOnly ==
    persisted.valid =>
        /\ disk.file = FileWith(to_string_pretty(persisted.record))
        /\ from_str(disk.file.content) = [ok |-> TRUE, state |-> persisted.record]

C8_Witness ==
    /\ saveOut.called
    /\ saveOut.result = "Ok"
    /\ persisted.valid
    /\ persisted.record = SimpleWindowState(0, 0, 0, 0)
    /\ before.file = FileWith(to_string_pretty(SimpleWindowState(1, I32Max, I32Min, I32Max)))

\* the first stage of save whose collaborator fails, 0 when none does
FirstFailing(f) ==
    IF f.config_dir THEN 1
    ELSE IF f.create_dir_all THEN 2
    ELSE IF f.to_string_pretty THEN 3
    ELSE IF f.write # "none" THEN 4
    ELSE 0

StageError == <<"ConfigDirUnavailable", "DirectoryCreateFailed", "SerializationFailed",
                "FileWriteFailed">>

\* C9: save runs directory resolution, directory creation, serialization and
\* the file write in that order and stops at the first stage that fails with
\* the error of that stage; a resolution failure leaves directory and file
\* untouched, a directory-creation failure leaves the file untouched; save
\* returns Ok only when no stage failed.
C9_StagesInOrder ==
    saveOut.called =>
        LET k == FirstFailing(saveOut.faults)
        IN  /\ saveOut.stages = SubSeq(StageOrder, 1, IF k = 0 THEN 4 ELSE k)
            /\ saveOut.result = (IF k = 0 THEN "Ok" ELSE StageError[k])
            /\ k = 1 => disk = before
            /\ k = 2 => disk.file = before.file
            /\ k \in {1, 2, 3} => disk.file = before.file

C9_Witness ==
    /\ saveOut.called
    /\ ~saveOut.faults.config_dir
    /\ saveOut.faults.create_dir_all
    /\ saveOut.faults.write = "partial"
    /\ saveOut.result = "DirectoryCreateFailed"
    /\ before.file.exists
    /\ disk.file = before.file

\* C10: when the previous session's close read the geometry (w, h, px, py)
\* and saved it, nothing wrote the file since, and the startup's directory
\* resolution and file read succeed, the setup closure requests size (w, h),
\* and requests position (px, py) if and only if px >= 0 and py >= 0;
\* otherwise it centers the window and requests no position.
C10_RestoreAcrossRestart ==
    (loadOut.called /\ persisted.valid /\ LoadFaultFree)
    => LET g == persisted.record
           positioned == \E k \in 1..Len(calls) :
                             /\ calls[k].op = "set_position"
                             /\ calls[k].a = g.x
                             /\ calls[k].b = g.y
       IN  /\ calls[1].op = "set_size"
           /\ calls[1].a = g.width
           /\ calls[1].b = g.height
           /\ positioned <=> (g.x >= 0 /\ g.y >= 0)
           /\ (g.x < 0 \/ g.y < 0) =>
                  /\ CountOp(calls, "set_position") = 0
                  /\ CountOp(calls, "center") = 1

C10_Witness ==
    /\ setupResult = "Ok"
    /\ persisted.valid
    /\ LoadFaultFree
    /\ persisted.record = SimpleWindowState(800, 1200, -1920, 30)
    /\ calls[1] = Call("set_size", 800, 1200, TRUE)
    /\ calls[2].op = "center"

====
